---- MODULE Spec2Model ----
(***************************************************************************)
(* Model of the AIONet decision engine (decision_engine/decision_tree.py). *)
(*                                                                         *)
(* Python values are tagged records: None, a list (a sequence), a dict (a  *)
(* sequence of <<key, value>> pairs in insertion order) and a string.      *)
(* The DecisionTree object is the variable `rules`; every public method    *)
(* is an action that records the call in `call` and its return value in    *)
(* `ret`.  The web application (app.py) adds the global current_session,   *)
(* the session log files and the start_session requests in flight.         *)
(* The variable cache is the cache of a HuggingFaceIntegration object     *)
(* (integrations/hugginface.py).                                           *)
(***************************************************************************)
EXTENDS Integers, Sequences, FiniteSets, TLC

VARIABLES rules, call, ret, current_session, logs, pending, cache

\* the state of the web application (app.py)
appVars == <<current_session, logs, pending>>

\* the state of a HuggingFaceIntegration object (integrations/hugginface.py)
hfVars == <<cache>>

vars == <<rules, call, ret, current_session, logs, pending, cache>>

(***************************************************************************)
(* Python values                                                           *)
(***************************************************************************)
NoneV == [t |-> "None"]

L(s) == [t |-> "list", v |-> s]

D(pairs) == [t |-> "dict", v |-> pairs]

S(x) == [t |-> "str", v |-> x]

IsDict(x) == x.t = "dict"

IsList(x) == x.t = "list"

\* Python truthiness of None, a list or a dict ("if not task").
Truthy(x) == /\ x.t # "None"
             /\ (x.t \in {"list", "dict", "str"} => Len(x.v) > 0)

\* k in d
DictHas(d, k) == \E i \in 1..Len(d.v) : d.v[i][1] = k

\* d[k], for a key that is present
DictItem(d, k) == d.v[CHOOSE i \in 1..Len(d.v) : d.v[i][1] = k][2]

\* d.get(k, default)
DictGet(d, k, default) == IF DictHas(d, k) THEN DictItem(d, k) ELSE default

\* list(d.keys())
DictKeys(d) == [i \in 1..Len(d.v) |-> d.v[i][1]]

\* list(d.values())
DictValues(d) == [i \in 1..Len(d.v) |-> d.v[i][2]]

\* needle in hay, for strings (case-sensitive substring test)
Contains(needle, hay) ==
    \E i \in 1..(Len(hay) - Len(needle) + 1) :
        SubSeq(hay, i, i + Len(needle) - 1) = needle

(***************************************************************************)
(* DecisionTree.__init__: the rules table.  The two description strings    *)
(* are Cyrillic in the source and are written here in Latin letters.       *)
(***************************************************************************)
TabularClassification ==
    D(<< <<"models", L(<<"LogisticRegression", "RandomForestClassifier",
                         "GradientBoostingClassifier", "SVC",
                         "KNeighborsClassifier">>)>>,
         <<"datasets",
           D(<< <<"sklearn", L(<<"load_iris", "load_wine",
                                 "load_breast_cancer", "load_digits">>)>>,
                <<"kaggle", L(<<"alexisbcook/titanic",
                                "uciml/mushroom-classification",
                                "uciml/sms-spam-collection-dataset">>)>> >>)>>,
         <<"description", S("Predskazanie kategorialnoi peremennoi (klassa)")>> >>)

TabularRegression ==
    D(<< <<"models", L(<<"LinearRegression", "Ridge", "Lasso",
                         "RandomForestRegressor",
                         "GradientBoostingRegressor">>)>>,
         <<"datasets",
           D(<< <<"sklearn", L(<<"load_diabetes", "california_housing">>)>>,
                <<"kaggle", L(<<"c/house-prices-advanced-regression-techniques",
                                "c/bike-sharing-demand">>)>> >>)>>,
         <<"description", S("Predskazanie chislovoi peremennoi")>> >>)

InitRules ==
    D(<< <<"Tabular", D(<< <<"subtasks",
            D(<< <<"classification", TabularClassification>>,
                 <<"regression", TabularRegression>> >>)>> >>)>>,
         <<"LLM", D(<< <<"subtasks",
            D(<< <<"code", L(<<"TheStack", "CodeParrot", "BigCodeBench">>)>>,
                 <<"chat", L(<<"ShareGPT", "OpenAssistant", "UltraChat">>)>>,
                 <<"translation", L(<<"WMT", "ParaCrawl">>)>>,
                 <<"summarization", L(<<"CNN/DailyMail", "XSUM">>)>> >>)>> >>)>>,
         <<"CV", D(<< <<"subtasks",
            D(<< <<"detection", L(<<"COCO", "Objects365", "OpenImages">>)>>,
                 <<"classification", L(<<"ImageNet", "CIFAR-10", "CIFAR-100">>)>>,
                 <<"segmentation", L(<<"ADE20K", "Cityscapes">>)>> >>)>> >>)>>,
         <<"Audio", D(<< <<"subtasks",
            D(<< <<"speech_to_text", L(<<"LibriSpeech", "CommonVoice">>)>>,
                 <<"speaker_id", L(<<"VoxCeleb", "LibriSpeech">>)>>,
                 <<"audio_classification", L(<<"ESC-50", "UrbanSound8K">>)>> >>)>> >>)>> >>)

(***************************************************************************)
(* DecisionTree.get_subtasks                                               *)
(***************************************************************************)
\* a variant that lists the keys from the last to the first
get_subtasks_Reversed(r, task_type) ==
    LET task == DictGet(r, task_type, NoneV)
    IN  IF ~Truthy(task) THEN NoneV
        ELSE LET keys == DictKeys(DictItem(task, "subtasks"))
             IN  L([i \in 1..Len(keys) |-> keys[Len(keys) + 1 - i]])

get_subtasks(r, task_type) ==
    LET task == DictGet(r, task_type, NoneV)
    IN  IF ~Truthy(task) THEN NoneV
        ELSE L(DictKeys(DictItem(task, "subtasks")))

(***************************************************************************)
(* DecisionTree.get_datasets                                               *)
(***************************************************************************)
RECURSIVE ExtendAll(_)
\* all_datasets = []; for src_datasets in values: all_datasets.extend(...)
ExtendAll(values) ==
    IF values = <<>> THEN <<>>
    ELSE ExtendAll(SubSeq(values, 1, Len(values) - 1)) \o values[Len(values)].v

RECURSIVE Dedup(_)
Dedup(ids) ==
    IF ids = <<>> THEN <<>>
    ELSE LET front == Dedup(SubSeq(ids, 1, Len(ids) - 1))
             last == ids[Len(ids)]
         IN  IF \E i \in 1..Len(front) : front[i] = last THEN front
             ELSE Append(front, last)

\* a variant that drops an identifier already taken from an earlier group
AllDatasets_Dedup(datasets) == L(Dedup(ExtendAll(DictValues(datasets))))

\* source == "all": every source group, one after the other
AllDatasets(datasets) == L(ExtendAll(DictValues(datasets)))

\* a variant without the default: datasets.get(source)
SourceDatasets_NoDefault(datasets, source) == DictGet(datasets, source, NoneV)

\* a specific source: datasets.get(source, [])
SourceDatasets(datasets, source) == DictGet(datasets, source, L(<<>>))

\* a variant in which a flat list is returned only for source "all"
SubtaskDatasets_FlatOnlyAll(subtask_data, source) ==
    IF IsDict(subtask_data) /\ DictHas(subtask_data, "datasets")
    THEN LET datasets == DictItem(subtask_data, "datasets")
         IN  IF IsDict(datasets)
             THEN IF source = "all" THEN AllDatasets(datasets)
                  ELSE SourceDatasets(datasets, source)
             ELSE datasets
    ELSE IF source = "all" \/ ~IsList(subtask_data) THEN subtask_data
         ELSE L(<<>>)

\* the part of get_datasets after the subtask was looked up
SubtaskDatasets(subtask_data, source) ==
    IF IsDict(subtask_data) /\ DictHas(subtask_data, "datasets")
    THEN LET datasets == DictItem(subtask_data, "datasets")
         IN  IF IsDict(datasets)
             THEN IF source = "all" THEN AllDatasets(datasets)
                  ELSE SourceDatasets(datasets, source)
             ELSE datasets
    ELSE subtask_data

\* a variant in which a missing subtask reads as an empty list
get_datasets_AbsentEmpty(r, task_type, subtask, source) ==
    LET task == DictGet(r, task_type, NoneV)
    IN  IF ~Truthy(task) THEN NoneV
        ELSE SubtaskDatasets(DictGet(DictItem(task, "subtasks"), subtask,
                                     L(<<>>)),
                             source)

get_datasets(r, task_type, subtask, source) ==
    LET task == DictGet(r, task_type, NoneV)
    IN  IF ~Truthy(task) THEN NoneV
        ELSE SubtaskDatasets(DictGet(DictItem(task, "subtasks"), subtask, NoneV),
                             source)

(***************************************************************************)
(* DecisionTree.get_models                                                 *)
(***************************************************************************)
\* a variant that reads a key the subtasks do not have
SubtaskModels_WrongKey(subtask_data) ==
    IF IsDict(subtask_data) THEN DictGet(subtask_data, "model", L(<<>>))
    ELSE NoneV

SubtaskModels(subtask_data) ==
    IF IsDict(subtask_data) THEN DictGet(subtask_data, "models", L(<<>>))
    ELSE NoneV

get_models(r, task_type, subtask) ==
    LET task == DictGet(r, task_type, NoneV)
    IN  IF ~Truthy(task) THEN NoneV
        ELSE SubtaskModels(DictGet(DictItem(task, "subtasks"), subtask, NoneV))

(***************************************************************************)
(* DecisionTree.get_task_info                                              *)
(***************************************************************************)
SubtaskInfo(subtask_data) ==
    IF IsDict(subtask_data)
    THEN D(<< <<"models", DictGet(subtask_data, "models", L(<<>>))>>,
              <<"datasets", DictGet(subtask_data, "datasets", L(<<>>))>>,
              <<"description", DictGet(subtask_data, "description", S(""))>> >>)
    ELSE NoneV

\* a variant that subscripts the table: self.rules[task_type]
get_task_info_Subscript(r, task_type, subtask) ==
    IF ~DictHas(r, task_type) THEN [t |-> "raise", v |-> "KeyError"]
    ELSE SubtaskInfo(DictGet(DictItem(DictItem(r, task_type), "subtasks"),
                             subtask, NoneV))

get_task_info(r, task_type, subtask) ==
    LET task == DictGet(r, task_type, NoneV)
    IN  IF ~Truthy(task) THEN NoneV
        ELSE SubtaskInfo(DictGet(DictItem(task, "subtasks"), subtask, NoneV))

(***************************************************************************)
(* DecisionTree.filter_by_criteria                                         *)
(***************************************************************************)
\* criteria.get(key): a missing switch reads as None, which is falsy
CriteriaGet(criteria, key) ==
    IF key \in DOMAIN criteria THEN criteria[key] ELSE FALSE

FastTraining(m) ==
    Contains("Linear", m) \/ Contains("Logistic", m) \/ Contains("KNeighbors", m)

Interpretable(m) ==
    Contains("Linear", m) \/ Contains("Logistic", m) \/ Contains("Tree", m)

HighAccuracy(m) == Contains("Forest", m) \/ Contains("Boosting", m)

\* a variant in which every switch filters the original list
FilterModels_FromOriginal(models, criteria) ==
    LET m1 == IF CriteriaGet(criteria, "fast_training")
              THEN SelectSeq(models, FastTraining) ELSE models
        m2 == IF CriteriaGet(criteria, "interpretable")
              THEN SelectSeq(models, Interpretable) ELSE m1
        m3 == IF CriteriaGet(criteria, "high_accuracy")
              THEN SelectSeq(models, HighAccuracy) ELSE m2
    IN  m3

\* the three conditional list comprehensions, each over the previous result
FilterModels(models, criteria) ==
    LET m1 == IF CriteriaGet(criteria, "fast_training")
              THEN SelectSeq(models, FastTraining) ELSE models
        m2 == IF CriteriaGet(criteria, "interpretable")
              THEN SelectSeq(m1, Interpretable) ELSE m1
        m3 == IF CriteriaGet(criteria, "high_accuracy")
              THEN SelectSeq(m2, HighAccuracy) ELSE m2
    IN  m3

\* a variant without the fallback to the original list
ModelsOrOriginal_NoFallback(models, original) == L(models)

\* models if models else subtask_data["models"]
ModelsOrOriginal(models, original) ==
    IF Len(models) > 0 THEN L(models) ELSE original

\* a variant that passes the datasets on as one flattened list
FilterEntry_FlatDatasets(subtask_data, criteria) ==
    D(<< <<"models",
           ModelsOrOriginal(FilterModels(DictItem(subtask_data, "models").v,
                                         criteria),
                            DictItem(subtask_data, "models"))>>,
         <<"datasets",
           IF IsDict(DictItem(subtask_data, "datasets"))
           THEN AllDatasets(DictItem(subtask_data, "datasets"))
           ELSE DictItem(subtask_data, "datasets")>> >>)

\* one results[subtask_name] entry
FilterEntry(subtask_data, criteria) ==
    D(<< <<"models",
           ModelsOrOriginal(FilterModels(DictItem(subtask_data, "models").v,
                                         criteria),
                            DictItem(subtask_data, "models"))>>,
         <<"datasets", DictItem(subtask_data, "datasets")>> >>)

\* the subtasks the loop makes an entry for
FilteredSubtasks(items) == SelectSeq(items, LAMBDA p : IsDict(p[2]))

filter_by_criteria(r, task_type, criteria) ==
    LET task == DictGet(r, task_type, NoneV)
    IN  IF ~Truthy(task) THEN NoneV
        ELSE LET items == FilteredSubtasks(DictItem(task, "subtasks").v)
             IN  IF items = <<>> THEN D(<<>>)
                 ELSE IF ~DictHas(items[1][2], "models")
                 THEN [t |-> "raise", v |-> "KeyError"]
                 \* criteria.get on None, at the first subtask of the loop
                 ELSE IF criteria = NoneV
                 THEN [t |-> "raise", v |-> "AttributeError"]
                 ELSE IF \E i \in 1..Len(items) :
                        \/ ~DictHas(items[i][2], "models")
                        \/ ~DictHas(items[i][2], "datasets")
                 THEN [t |-> "raise", v |-> "KeyError"]
                 ELSE D([i \in 1..Len(items) |->
                           <<items[i][1], FilterEntry(items[i][2], criteria)>>])

(***************************************************************************)
(* Callers' arguments                                                      *)
(***************************************************************************)
TaskTypes == {"Tabular", "LLM", "CV", "Audio", "NoSuchCategory", "",
              "classification", "regression"}

SubtaskNames == {"classification", "regression", "code", "chat", "translation",
                 "summarization", "detection", "segmentation",
                 "speech_to_text", "speaker_id", "audio_classification",
                 "x", ""}

Sources == {"all", "sklearn", "kaggle", "huggingface"}

CriteriaKeys == {"fast_training", "interpretable", "high_accuracy", "small_data"}

\* every criteria dict over the switches, each present or absent, True or
\* False, and None for a caller that has no criteria object
CriteriaObjects ==
    UNION {[K -> BOOLEAN] : K \in SUBSET CriteriaKeys} \cup {NoneV}

(***************************************************************************)
(* app.py, module level: no session yet, no log file written               *)
(***************************************************************************)
MaxSessions == 2

\* str(uuid.uuid4())[:8]: the identifiers a session can get
SessionIds == {<<"1f0c9a7e", "b3d2e4a1", "7a9e0c55", "e81b6f02">>[i] :
                 i \in 1..MaxSessions}

\* os.path.join(SESSIONS_DIR, f"session_{session_id}")
SessionPath(session_id) == "sessions/session_" \o session_id

SessionPaths == {SessionPath(id) : id \in SessionIds}

\* logs maps every session directory made so far to the lines of its
\* log.txt (no lines while the file does not exist); pending holds the
\* session ids of the start_session requests between create_session and log
InitApp ==
    /\ current_session = NoneV
    /\ logs = [p \in {} |-> <<>>]
    /\ pending = {}

(***************************************************************************)
(* The state machine: one action per public method                         *)
(***************************************************************************)
\* HuggingFaceIntegration.__init__: self.cache = {}
InitHF == cache = D(<<>>)

Init ==
    /\ rules = InitRules
    /\ call = [op |-> "init"]
    /\ ret = NoneV
    /\ InitApp
    /\ InitHF

GetSubtasks(task_type) ==
    /\ call' = [op |-> "get_subtasks", task_type |-> task_type]
    /\ ret' = get_subtasks(rules, task_type)
    /\ UNCHANGED <<rules, appVars, hfVars>>

GetDatasets(task_type, subtask, source) ==
    /\ call' = [op |-> "get_datasets", task_type |-> task_type,
                subtask |-> subtask, source |-> source]
    /\ ret' = get_datasets(rules, task_type, subtask, source)
    /\ UNCHANGED <<rules, appVars, hfVars>>

GetModels(task_type, subtask) ==
    /\ call' = [op |-> "get_models", task_type |-> task_type,
                subtask |-> subtask]
    /\ ret' = get_models(rules, task_type, subtask)
    /\ UNCHANGED <<rules, appVars, hfVars>>

GetTaskInfo(task_type, subtask) ==
    /\ call' = [op |-> "get_task_info", task_type |-> task_type,
                subtask |-> subtask]
    /\ ret' = get_task_info(rules, task_type, subtask)
    /\ UNCHANGED <<rules, appVars, hfVars>>

RECURSIVE ReplaceAt(_, _, _)
\* the nested dict `val` with the value at the key path `path` replaced
ReplaceAt(val, path, new) ==
    IF path = <<>> THEN new
    ELSE D([i \in 1..Len(val.v) |->
              IF val.v[i][1] = Head(path)
              THEN <<val.v[i][1], ReplaceAt(val.v[i][2], Tail(path), new)>>
              ELSE val.v[i]])

\* a variant that stores the filtered list of the first subtask in the table
FilterByCriteria_InPlace(task_type, criteria) ==
    /\ call' = [op |-> "filter_by_criteria", task_type |-> task_type,
                criteria |-> criteria]
    /\ ret' = filter_by_criteria(rules, task_type, criteria)
    /\ rules' = IF IsDict(ret') /\ Len(ret'.v) > 0
                THEN ReplaceAt(rules,
                               <<task_type, "subtasks", ret'.v[1][1], "models">>,
                               DictItem(ret'.v[1][2], "models"))
                ELSE rules
    /\ UNCHANGED <<appVars, hfVars>>

FilterByCriteria(task_type, criteria) ==
    /\ call' = [op |-> "filter_by_criteria", task_type |-> task_type,
                criteria |-> criteria]
    /\ ret' = filter_by_criteria(rules, task_type, criteria)
    /\ UNCHANGED <<rules, appVars, hfVars>>

Next ==
    \/ \E t \in TaskTypes : GetSubtasks(t)
    \/ \E t \in TaskTypes, s \in SubtaskNames, src \in Sources :
          GetDatasets(t, s, src)
    \/ \E t \in TaskTypes, s \in SubtaskNames : GetModels(t, s)
    \/ \E t \in TaskTypes, s \in SubtaskNames : GetTaskInfo(t, s)
    \/ \E t \in TaskTypes, c \in CriteriaObjects : FilterByCriteria(t, c)

Spec == Init /\ [][Next]_vars

(***************************************************************************)
(* A second specification for the claims that speak of every model list    *)
(* and every grouping of datasets: the table is drawn from bounded sets,   *)
(* in the shape __init__ gives it, and the same methods are called.        *)
(***************************************************************************)
MaxModels == 2

MaxIds == 1

ModelUniverse == {"LogisticRegression", "RandomForestClassifier", "SVC",
                  "KNeighborsClassifier", "DecisionTreeClassifier",
                  "GradientBoostingRegressor", "linear_svc"}

DatasetUniverse == {"load_iris", "alexisbcook/titanic"}

SeqsUpTo(U, n) == UNION {[1..k -> U] : k \in 0..n}

ModelLists == SeqsUpTo(ModelUniverse, MaxModels)

IdLists == SeqsUpTo(DatasetUniverse, MaxIds)

DefaultModels == L(<<"LogisticRegression", "RandomForestClassifier">>)

DefaultDatasets ==
    D(<< <<"sklearn", L(<<"load_iris">>)>>,
         <<"kaggle", L(<<"alexisbcook/titanic">>)>> >>)

\* datasets grouped by source: no group, one group, or both in either order
GroupedDatasets ==
    {D(<<>>)}
    \cup {D(<< <<g, L(a)>> >>) : g \in {"sklearn", "kaggle"}, a \in IdLists}
    \cup {D(<< <<g[1], L(a)>>, <<g[2], L(b)>> >>) :
            g \in {<<"sklearn", "kaggle">>, <<"kaggle", "sklearn">>},
            a \in IdLists, b \in IdLists}

FlatDatasets == {L(a) : a \in IdLists}

GenTable(models, datasets, flat) ==
    D(<< <<"Tabular", D(<< <<"subtasks",
            D(<< <<"classification",
                   D(<< <<"models", models>>, <<"datasets", datasets>>,
                        <<"description", S("")>> >>)>>,
                 <<"regression", TabularRegression>> >>)>> >>)>>,
         <<"LLM", D(<< <<"subtasks",
            D(<< <<"code", flat>>,
                 <<"chat", L(<<"ShareGPT", "OpenAssistant", "UltraChat">>)>> >>)>> >>)>> >>)

DefaultFlat == L(<<"TheStack", "CodeParrot", "BigCodeBench">>)

GenTables ==
    {InitRules}
    \cup {GenTable(L(m), DefaultDatasets, DefaultFlat) : m \in ModelLists}
    \cup {GenTable(DefaultModels, d, DefaultFlat) :
            d \in GroupedDatasets \cup FlatDatasets}
    \cup {GenTable(DefaultModels, DefaultDatasets, f) : f \in FlatDatasets}

GenTaskTypes == {"Tabular", "LLM", "NoSuchCategory"}

GenSubtaskNames == {"classification", "code", "x"}

Switches == {"fast_training", "interpretable", "high_accuracy"}

GenCriteria == [Switches -> BOOLEAN]

InitGen ==
    /\ rules \in GenTables
    /\ call = [op |-> "init"]
    /\ ret = NoneV
    /\ InitApp
    /\ InitHF

NextGen ==
    \/ \E t \in GenTaskTypes : GetSubtasks(t)
    \/ \E t \in GenTaskTypes, s \in GenSubtaskNames, src \in Sources :
          GetDatasets(t, s, src)
    \/ \E t \in GenTaskTypes, s \in GenSubtaskNames : GetModels(t, s)
    \/ \E t \in GenTaskTypes, s \in GenSubtaskNames : GetTaskInfo(t, s)
    \/ \E t \in GenTaskTypes, c \in GenCriteria : FilterByCriteria(t, c)

SpecGen == InitGen /\ [][NextGen]_vars

(***************************************************************************)
(* Vocabulary of the properties: what the table defines                    *)
(***************************************************************************)
CategoryPresent(c) == DictHas(rules, c)

SubtasksOf(c) == DictItem(DictItem(rules, c), "subtasks")

SubtaskPresent(c, s) == CategoryPresent(c) /\ DictHas(SubtasksOf(c), s)

SubtaskData(c, s) == DictItem(SubtasksOf(c), s)

\* the subtask defines a model list
DefinesModels(c, s) ==
    /\ SubtaskPresent(c, s)
    /\ IsDict(SubtaskData(c, s))
    /\ DictHas(SubtaskData(c, s), "models")

ModelsOf(c, s) == DictItem(SubtaskData(c, s), "models")

\* the subtask's datasets are grouped by source
GroupedBySource(c, s) ==
    /\ SubtaskPresent(c, s)
    /\ IsDict(SubtaskData(c, s))
    /\ DictHas(SubtaskData(c, s), "datasets")
    /\ IsDict(DictItem(SubtaskData(c, s), "datasets"))

GroupsOf(c, s) == DictItem(SubtaskData(c, s), "datasets")

\* the switch is active in the criteria object
Active(criteria, switch) == switch \in DOMAIN criteria /\ criteria[switch] = TRUE

Keywords(switch) ==
    CASE switch = "fast_training" -> {"Linear", "Logistic", "KNeighbors"}
      [] switch = "interpretable" -> {"Linear", "Logistic", "Tree"}
      [] switch = "high_accuracy" -> {"Forest", "Boosting"}

\* the model passes every active switch
Passes(m, criteria) ==
    \A sw \in Switches :
        Active(criteria, sw) => \E kw \in Keywords(sw) : Contains(kw, m)

\* the reference result of filtering one model list
Reference(original, criteria) ==
    LET kept == SelectSeq(original, LAMBDA m : Passes(m, criteria))
    IN  IF kept = <<>> THEN original ELSE kept

\* the models of the entry that the returned mapping has for subtask s
ReturnedModels(s) == DictItem(DictItem(ret, s), "models")

(***************************************************************************)
(* C1: for every category, every subtask of it that defines a non-empty    *)
(* model list and every combination of the three switches,                 *)
(* filter_by_criteria returns a non-empty model list for that subtask, and *)
(* when the active switches filter out every model the returned list is    *)
(* the subtask's full original model list.                                 *)
(***************************************************************************)
C1_FilterNeverEmpty ==
    (call.op = "filter_by_criteria" /\ CategoryPresent(call.task_type)) =>
        \A s \in {SubtasksOf(call.task_type).v[i][1] :
                    i \in 1..Len(SubtasksOf(call.task_type).v)} :
            (DefinesModels(call.task_type, s)
             /\ Len(ModelsOf(call.task_type, s).v) > 0) =>
                /\ IsDict(ret)
                /\ DictHas(ret, s)
                /\ IsList(ReturnedModels(s))
                /\ Len(ReturnedModels(s).v) > 0
                /\ (\A i \in 1..Len(ModelsOf(call.task_type, s).v) :
                        ~Passes(ModelsOf(call.task_type, s).v[i], call.criteria))
                      => ReturnedModels(s) = ModelsOf(call.task_type, s)

\* every model of a two-model list is filtered out and the fallback applies
C1_Witness ==
    /\ call.op = "filter_by_criteria"
    /\ call.task_type = "Tabular"
    /\ Active(call.criteria, "high_accuracy")
    /\ ModelsOf("Tabular", "classification") = L(<<"SVC", "KNeighborsClassifier">>)
    /\ IsDict(ret)
    /\ ReturnedModels("classification") = L(<<"SVC", "KNeighborsClassifier">>)

(***************************************************************************)
(* C2: for every subtask model list and every subset of active switches    *)
(* the model list returned by filter_by_criteria is the reference result:  *)
(* the models, in original order, that contain a keyword of every active   *)
(* switch (fast_training, then interpretable, then high_accuracy, each on  *)
(* the previous result), or the original list if none is left.  In         *)
(* particular interpretable alone on [LogisticRegression,                  *)
(* RandomForestClassifier] gives [LogisticRegression], and fast_training   *)
(* with high_accuracy on that list gives the full original list.           *)
(***************************************************************************)
C2_FilterMatchesReference ==
    (call.op = "filter_by_criteria" /\ CategoryPresent(call.task_type)) =>
        /\ \A s \in {SubtasksOf(call.task_type).v[i][1] :
                       i \in 1..Len(SubtasksOf(call.task_type).v)} :
              DefinesModels(call.task_type, s) =>
                 /\ IsDict(ret)
                 /\ DictHas(ret, s)
                 /\ ReturnedModels(s) =
                      L(Reference(ModelsOf(call.task_type, s).v, call.criteria))
        /\ (/\ call.task_type = "Tabular"
            /\ ModelsOf("Tabular", "classification") = DefaultModels) =>
              /\ (/\ Active(call.criteria, "interpretable")
                  /\ ~Active(call.criteria, "fast_training")
                  /\ ~Active(call.criteria, "high_accuracy"))
                    => ReturnedModels("classification") = L(<<"LogisticRegression">>)
              /\ (/\ Active(call.criteria, "fast_training")
                  /\ Active(call.criteria, "high_accuracy")
                  /\ ~Active(call.criteria, "interpretable"))
                    => ReturnedModels("classification") = DefaultModels

\* two switches are active and each keeps a different model of the list
C2_Witness ==
    /\ call.op = "filter_by_criteria"
    /\ call.task_type = "Tabular"
    /\ Active(call.criteria, "fast_training")
    /\ Active(call.criteria, "high_accuracy")
    /\ ~Active(call.criteria, "interpretable")
    /\ ModelsOf("Tabular", "classification") = DefaultModels
    /\ IsDict(ret)
    /\ ReturnedModels("classification") = DefaultModels

(***************************************************************************)
(* C3: for every category present in the table and every criteria object,  *)
(* filter_by_criteria returns a mapping whose key set is exactly the set   *)
(* of that category's subtasks, one entry per subtask, also for subtasks   *)
(* stored as a flat dataset list; it returns None only when the category   *)
(* itself is absent.                                                       *)
(***************************************************************************)
C3_OneEntryPerSubtask ==
    call.op = "filter_by_criteria" =>
        IF CategoryPresent(call.task_type)
        THEN /\ IsDict(ret)
             /\ Len(ret.v) = Len(SubtasksOf(call.task_type).v)
             /\ {ret.v[i][1] : i \in 1..Len(ret.v)} =
                  {SubtasksOf(call.task_type).v[i][1] :
                     i \in 1..Len(SubtasksOf(call.task_type).v)}
        ELSE ret = NoneV

(***************************************************************************)
(* C4: get_models returns None only when the category or the subtask is    *)
(* absent from the table; for every subtask that is present but stores no  *)
(* models field (the flat-list subtasks of LLM, CV and Audio included) it   *)
(* returns an empty list, not None.                                        *)
(***************************************************************************)
C4_ModelsNotFoundOnlyWhenAbsent ==
    call.op = "get_models" =>
        /\ (ret = NoneV) <=> ~SubtaskPresent(call.task_type, call.subtask)
        /\ (/\ SubtaskPresent(call.task_type, call.subtask)
            /\ ~DefinesModels(call.task_type, call.subtask))
              => ret = L(<<>>)

C6_TaskInfoFlattened ==
    call.op = "get_task_info" =>
        IF SubtaskPresent(call.task_type, call.subtask)
        THEN /\ IsDict(ret)
             /\ DictKeys(ret) = <<"models", "datasets", "description">>
             /\ IsList(DictItem(ret, "datasets"))
             /\ DictItem(ret, "datasets") =
                  get_datasets(rules, call.task_type, call.subtask, "all")
        ELSE ret = NoneV

(***************************************************************************)
(* C7: for every subtask whose datasets are grouped by source,             *)
(* get_datasets(category, subtask, "all") is the concatenation of every    *)
(* group's identifiers: groups in definition order, each group's order     *)
(* kept, duplicates across groups kept, so its length is the sum of the    *)
(* group lengths (for Tabular/classification all sklearn entries come      *)
(* before all kaggle entries).                                             *)
(***************************************************************************)
RECURSIVE GroupOffset(_, _)
\* the number of identifiers in the groups before group i
GroupOffset(groups, i) ==
    IF i = 1 THEN 0
    ELSE GroupOffset(groups, i - 1) + Len(groups[i - 1][2].v)

C7_AllIsConcatenation ==
    (/\ call.op = "get_datasets"
     /\ call.source = "all"
     /\ GroupedBySource(call.task_type, call.subtask)) =>
        LET groups == GroupsOf(call.task_type, call.subtask).v
        IN  /\ IsList(ret)
            /\ Len(ret.v) = GroupOffset(groups, Len(groups) + 1)
            /\ \A i \in 1..Len(groups) :
                  \A j \in 1..Len(groups[i][2].v) :
                     ret.v[GroupOffset(groups, i) + j] = groups[i][2].v[j]

\* two groups hold the same identifier and it is returned twice
C7_Witness ==
    /\ call.op = "get_datasets"
    /\ call.task_type = "Tabular"
    /\ call.subtask = "classification"
    /\ call.source = "all"
    /\ GroupedBySource("Tabular", "classification")
    /\ GroupsOf("Tabular", "classification") =
         D(<< <<"kaggle", L(<<"load_iris">>)>>, <<"sklearn", L(<<"load_iris">>)>> >>)
    /\ ret = L(<<"load_iris", "load_iris">>)

(***************************************************************************)
(* C8: for every subtask whose datasets are grouped by source and every    *)
(* source name other than "all", get_datasets returns exactly that group's *)
(* identifiers when the group exists and an empty list (never None, never  *)
(* an error) when it does not.                                             *)
(***************************************************************************)
C8_SourceGroupOrEmpty ==
    (/\ call.op = "get_datasets"
     /\ call.source # "all"
     /\ GroupedBySource(call.task_type, call.subtask)) =>
        IF \E i \in 1..Len(GroupsOf(call.task_type, call.subtask).v) :
              GroupsOf(call.task_type, call.subtask).v[i][1] = call.source
        THEN \E i \in 1..Len(GroupsOf(call.task_type, call.subtask).v) :
                /\ GroupsOf(call.task_type, call.subtask).v[i][1] = call.source
                /\ ret = GroupsOf(call.task_type, call.subtask).v[i][2]
        ELSE ret = L(<<>>)

\* a group that the subtask does not have is asked for
C8_Witness ==
    /\ call.op = "get_datasets"
    /\ call.source = "huggingface"
    /\ GroupedBySource(call.task_type, call.subtask)
    /\ Len(GroupsOf(call.task_type, call.subtask).v) = 2
    /\ ret = L(<<>>)

(***************************************************************************)
(* C9: get_datasets returns None exactly when the category or the subtask  *)
(* is absent from the table; for every subtask that is present it returns  *)
(* a list, which is empty when the subtask has zero datasets.              *)
(***************************************************************************)
\* the datasets a present subtask stores: a flat list or a dict of groups
StoredDatasets(c, s) ==
    IF IsDict(SubtaskData(c, s)) THEN DictItem(SubtaskData(c, s), "datasets")
    ELSE SubtaskData(c, s)

HasZeroDatasets(c, s) ==
    IF IsDict(StoredDatasets(c, s))
    THEN \A i \in 1..Len(StoredDatasets(c, s).v) :
            Len(StoredDatasets(c, s).v[i][2].v) = 0
    ELSE Len(StoredDatasets(c, s).v) = 0

C9_DatasetsNotFoundIffAbsent ==
    call.op = "get_datasets" =>
        /\ (ret = NoneV) <=> ~SubtaskPresent(call.task_type, call.subtask)
        /\ SubtaskPresent(call.task_type, call.subtask) =>
              /\ IsList(ret)
              /\ HasZeroDatasets(call.task_type, call.subtask) => ret = L(<<>>)

\* a present subtask with zero datasets
C9_Witness ==
    /\ call.op = "get_datasets"
    /\ call.task_type = "LLM"
    /\ call.subtask = "code"
    /\ SubtaskPresent("LLM", "code")
    /\ HasZeroDatasets("LLM", "code")
    /\ ret = L(<<>>)

(***************************************************************************)
(* C10: for every subtask whose datasets are stored as a flat list (all    *)
(* subtasks of LLM, CV and Audio), get_datasets returns that same flat     *)
(* list for every value of the source argument: "all", a group name of     *)
(* another category and an unknown name.                                   *)
(***************************************************************************)
C10_FlatIgnoresSource ==
    (call.op = "get_datasets" /\ SubtaskPresent(call.task_type, call.subtask)) =>
        /\ call.task_type \in {"LLM", "CV", "Audio"} =>
              IsList(SubtaskData(call.task_type, call.subtask))
        /\ IsList(StoredDatasets(call.task_type, call.subtask)) =>
              ret = StoredDatasets(call.task_type, call.subtask)

\* a flat-list subtask is asked for a group name of the Tabular category
C10_Witness ==
    /\ call.op = "get_datasets"
    /\ call.task_type = "CV"
    /\ call.subtask = "classification"
    /\ call.source = "sklearn"
    /\ ret = L(<<"ImageNet", "CIFAR-10", "CIFAR-100">>)

(***************************************************************************)
(* C11: for every category present in the table get_subtasks returns the   *)
(* keys of all its subtasks in definition order, and for every category    *)
(* name absent from the table it returns None.                             *)
(***************************************************************************)
C11_SubtasksInDefinitionOrder ==
    call.op = "get_subtasks" =>
        IF CategoryPresent(call.task_type)
        THEN /\ IsList(ret)
             /\ Len(ret.v) = Len(SubtasksOf(call.task_type).v)
             /\ \A i \in 1..Len(ret.v) :
                   ret.v[i] = SubtasksOf(call.task_type).v[i][1]
        ELSE ret = NoneV

\* four subtasks whose definition order is not the alphabetical one
C11_Witness ==
    /\ call.op = "get_subtasks"
    /\ call.task_type = "LLM"
    /\ ret = L(<<"code", "chat", "translation", "summarization">>)

(***************************************************************************)
(* C12: for every string task_type that is not a category of the table     *)
(* (the empty string and the values "classification" and "regression"      *)
(* included) each of the five methods returns None and does not raise,     *)
(* whatever the other arguments are.                                       *)
(***************************************************************************)
CatalogOps == {"get_subtasks", "get_datasets", "get_models", "get_task_info",
               "filter_by_criteria"}

C12_UnknownCategoryIsNotFound ==
    (call.op \in CatalogOps /\ ~CategoryPresent(call.task_type)) => ret = NoneV

\* a task type the task parser produces, with a subtask name that exists elsewhere
C12_Witness ==
    /\ call.op = "get_task_info"
    /\ call.task_type = "regression"
    /\ call.subtask = "classification"
    /\ ret = NoneV

(***************************************************************************)
(* C13: filter_by_criteria never raises for a malformed criteria object: a *)
(* switch that is absent, false or not one of the three recognized ones    *)
(* applies no filtering, so with no recognized switch active every         *)
(* subtask's returned model list is its original list; this holds for      *)
(* every criteria value a caller may pass, an empty or missing criteria    *)
(* object included.                                                        *)
(***************************************************************************)
C13_MalformedCriteriaNeverRaise ==
    (call.op = "filter_by_criteria" /\ CategoryPresent(call.task_type)) =>
        /\ ret.t # "raise"
        /\ (\A sw \in Switches : ~Active(call.criteria, sw)) =>
              \A i \in 1..Len(SubtasksOf(call.task_type).v) :
                 DefinesModels(call.task_type, SubtasksOf(call.task_type).v[i][1])
                 => /\ IsDict(ret)
                    /\ DictHas(ret, SubtasksOf(call.task_type).v[i][1])
                    /\ ReturnedModels(SubtasksOf(call.task_type).v[i][1]) =
                         ModelsOf(call.task_type, SubtasksOf(call.task_type).v[i][1])

(***************************************************************************)
(* What a caller holds after a lookup: the lists of the table that the     *)
(* returned value contains as the same object (no copy is made), each      *)
(* named by its key path in the table.                                     *)
(***************************************************************************)
\* the lists reachable through a subtask's "datasets" value
DatasetAliases(base, subtask_data) ==
    IF ~DictHas(subtask_data, "datasets") THEN {}
    ELSE IF IsDict(DictItem(subtask_data, "datasets"))
    THEN {base \o <<"datasets", DictItem(subtask_data, "datasets").v[i][1]>> :
            i \in 1..Len(DictItem(subtask_data, "datasets").v)}
    ELSE {base \o <<"datasets">>}

\* get_datasets: "all" builds a new list, everything else returns a stored one
GetDatasetsAliases(base, subtask_data, source) ==
    IF IsDict(subtask_data) /\ DictHas(subtask_data, "datasets")
    THEN LET datasets == DictItem(subtask_data, "datasets")
         IN  IF IsDict(datasets)
             THEN IF source # "all" /\ DictHas(datasets, source)
                  THEN {base \o <<"datasets", source>>}
                  ELSE {}
             ELSE {base \o <<"datasets">>}
    ELSE IF IsList(subtask_data) THEN {base}
    ELSE {}

\* get_models and get_task_info return the stored "models" list
ModelsAliases(base, subtask_data) ==
    IF IsDict(subtask_data) /\ DictHas(subtask_data, "models")
    THEN {base \o <<"models">>}
    ELSE {}

\* filter_by_criteria: `models` is still the stored list when no switch
\* rebinds it, and the fallback puts the stored list in the entry
FilterAliases(base, subtask_data, criteria) ==
    (IF \/ (\A sw \in {"fast_training", "interpretable", "high_accuracy"} :
               ~CriteriaGet(criteria, sw))
        \/ FilterModels(DictItem(subtask_data, "models").v, criteria) = <<>>
     THEN {base \o <<"models">>}
     ELSE {})
    \cup DatasetAliases(base, subtask_data)

ReturnedAliases ==
    IF ~(call.op \in {"get_datasets", "get_models", "get_task_info",
                      "filter_by_criteria"})
       \/ ~DictHas(rules, call.task_type)
    THEN {}
    ELSE LET subtasks == DictItem(DictItem(rules, call.task_type), "subtasks")
         IN  IF call.op = "filter_by_criteria"
             THEN IF ~IsDict(ret) THEN {}
                  ELSE UNION {FilterAliases(<<call.task_type, "subtasks",
                                              ret.v[i][1]>>,
                                            DictItem(subtasks, ret.v[i][1]),
                                            call.criteria) :
                                i \in 1..Len(ret.v)}
             ELSE IF ~DictHas(subtasks, call.subtask) THEN {}
             ELSE LET base == <<call.task_type, "subtasks", call.subtask>>
                      subtask_data == DictItem(subtasks, call.subtask)
                  IN  CASE call.op = "get_datasets" ->
                             GetDatasetsAliases(base, subtask_data, call.source)
                        [] call.op = "get_models" ->
                             ModelsAliases(base, subtask_data)
                        [] call.op = "get_task_info" ->
                             IF IsDict(subtask_data)
                             THEN ModelsAliases(base, subtask_data)
                                  \cup DatasetAliases(base, subtask_data)
                             ELSE {}

RECURSIVE ValueAt(_, _)
ValueAt(val, path) ==
    IF path = <<>> THEN val ELSE ValueAt(DictItem(val, Head(path)), Tail(path))

\* every list of the table, by key path
RECURSIVE ListPaths(_, _)
ListPaths(val, prefix) ==
    IF IsList(val) THEN {prefix}
    ELSE IF IsDict(val)
    THEN UNION {ListPaths(val.v[i][2], Append(prefix, val.v[i][1])) :
                  i \in 1..Len(val.v)}
    ELSE {}

RECURSIVE TotalLen(_, _)
\* the number of items in the lists of table r at the paths ps
TotalLen(r, ps) ==
    IF ps = {} THEN 0
    ELSE LET p == CHOOSE q \in ps : TRUE
         IN  Len(ValueAt(r, p).v) + TotalLen(r, ps \ {p})

MaxAppends == 1

CallerItems == {"MyModel"}

\* the caller appends to a list it got from the last lookup: returned.append(x)
CallerAppend(path, x) ==
    /\ path \in ReturnedAliases
    /\ TotalLen(rules, ListPaths(InitRules, <<>>))
         < TotalLen(InitRules, ListPaths(InitRules, <<>>)) + MaxAppends
    /\ rules' = ReplaceAt(rules, path, L(Append(ValueAt(rules, path).v, x)))
    /\ call' = [op |-> "append", path |-> path, item |-> x]
    /\ ret' = NoneV
    /\ UNCHANGED <<appVars, hfVars>>

NextAlias ==
    \/ \E t \in GenTaskTypes : GetSubtasks(t)
    \/ \E t \in GenTaskTypes, s \in GenSubtaskNames, src \in Sources :
          GetDatasets(t, s, src)
    \/ \E t \in GenTaskTypes, s \in GenSubtaskNames : GetModels(t, s)
    \/ \E t \in GenTaskTypes, s \in GenSubtaskNames : GetTaskInfo(t, s)
    \/ \E t \in GenTaskTypes, c \in GenCriteria : FilterByCriteria(t, c)
    \/ \E p \in ListPaths(InitRules, <<>>), x \in CallerItems : CallerAppend(p, x)

SpecAlias == Init /\ [][NextAlias]_vars

\* what the call returns on the table as __init__ built it
ResultAtConstruction(c) ==
    CASE c.op = "get_subtasks" -> get_subtasks(InitRules, c.task_type)
      [] c.op = "get_datasets" ->
           get_datasets(InitRules, c.task_type, c.subtask, c.source)
      [] c.op = "get_models" -> get_models(InitRules, c.task_type, c.subtask)
      [] c.op = "get_task_info" ->
           get_task_info(InitRules, c.task_type, c.subtask)
      [] c.op = "filter_by_criteria" ->
           filter_by_criteria(InitRules, c.task_type, c.criteria)

(***************************************************************************)
(* C14: in every state reachable by any sequence of calls to the five      *)
(* methods the table equals its construction-time value; hence a lookup    *)
(* returns what it returns on the table as constructed, however many       *)
(* lookups came before, and a repeated lookup returns the same result.     *)
(***************************************************************************)
C14_TableNeverChanges ==
    /\ rules = InitRules
    /\ call.op \in CatalogOps => ret = ResultAtConstruction(call)

\* a call that filters, after which the table still has all five models
C14_Witness ==
    /\ call.op = "filter_by_criteria"
    /\ call.task_type = "Tabular"
    /\ call.criteria # NoneV
    /\ Active(call.criteria, "fast_training")
    /\ IsDict(ret)
    /\ ReturnedModels("classification") =
         L(<<"LogisticRegression", "KNeighborsClassifier">>)
    /\ Len(ModelsOf("Tabular", "classification").v) = 5

(***************************************************************************)
(* C15: for every subtask entry produced by filter_by_criteria and every   *)
(* criteria object, the entry's datasets equal the subtask's stored        *)
(* datasets: no switch removes, reorders or adds a dataset identifier.     *)
(***************************************************************************)
C15_DatasetsPassThrough ==
    (call.op = "filter_by_criteria" /\ IsDict(ret)) =>
        \A i \in 1..Len(ret.v) :
            /\ SubtaskPresent(call.task_type, ret.v[i][1])
            /\ DictHas(ret.v[i][2], "datasets")
            /\ DictItem(ret.v[i][2], "datasets") =
                 DictItem(SubtaskData(call.task_type, ret.v[i][1]), "datasets")

\* models are filtered while the two dataset groups come back as stored
C15_Witness ==
    /\ call.op = "filter_by_criteria"
    /\ call.task_type = "Tabular"
    /\ Active(call.criteria, "interpretable")
    /\ IsDict(ret)
    /\ ReturnedModels("classification") = L(<<"LogisticRegression">>)
    /\ DictItem(DictItem(ret, "classification"), "datasets") =
         D(<< <<"kaggle", L(<<"alexisbcook/titanic">>)>>,
              <<"sklearn", L(<<"load_iris">>)>> >>)

(***************************************************************************)
(* C16: a value returned by a lookup (get_models, get_datasets for "all",  *)
(* for a specific source or for a flat subtask, get_task_info,             *)
(* filter_by_criteria) is independent of the table: when the caller        *)
(* modifies a returned list, every later lookup still returns the          *)
(* originally defined values.                                              *)
(***************************************************************************)
C16_ReturnedValuesAreCopies ==
    call.op \in CatalogOps => ret = ResultAtConstruction(call)

(***************************************************************************)
(* app.py: the request handlers.  The server handles requests in threads,  *)
(* so the two steps of start_session (create_session, then log) of         *)
(* different requests interleave; the other handlers read current_session  *)
(* once, in log, and are one step each.                                    *)
(***************************************************************************)
MaxLogLines == 3

AppTaskTypes == {"Tabular", "NoSuchCategory"}

AppSubtasks == {"classification", "x"}

AppTasks == {"predict prices"}

\* jsonify(body), status
Response(status, body) == [t |-> "response", status |-> status, body |-> body]

RECURSIVE CountLines(_, _)
CountLines(files, paths) ==
    IF paths = {} THEN 0
    ELSE LET p == CHOOSE q \in paths : TRUE
         IN  Len(files[p]) + CountLines(files, paths \ {p})

\* room for one more line within the bound of the model
LogHasRoom == CountLines(logs, DOMAIN logs) < MaxLogLines

\* log(data): append to the log of whatever session is current now
Log(data) ==
    IF Truthy(current_session)
    THEN [logs EXCEPT ![current_session.v] = Append(@, data)]
    ELSE logs

\* start_session, first step: create_session() makes the directory and
\* sets the global; uuid4 gives an identifier not used before
CreateSession(session_id) ==
    /\ SessionPath(session_id) \notin DOMAIN logs
    /\ logs' = logs @@ (SessionPath(session_id) :> <<>>)
    /\ current_session' = S(SessionPath(session_id))
    /\ pending' = pending \cup {session_id}
    /\ call' = [op |-> "start_session", step |-> "create_session",
                session_id |-> session_id]
    /\ ret' = NoneV
    /\ UNCHANGED <<rules, hfVars>>

\* start_session, second step: log(f"NEW SESSION {session_id}") and return
LogNewSession(session_id) ==
    /\ session_id \in pending
    /\ LogHasRoom
    /\ logs' = Log("NEW SESSION " \o session_id)
    /\ pending' = pending \ {session_id}
    /\ call' = [op |-> "start_session", step |-> "log",
                session_id |-> session_id]
    /\ ret' = Response(200, D(<< <<"session_id", S(session_id)>> >>))
    /\ UNCHANGED <<rules, current_session, hfVars>>

SelectTaskType(task_type) ==
    LET subtasks == get_subtasks(rules, task_type)
    IN  /\ call' = [op |-> "select_task_type", task_type |-> task_type]
        /\ IF subtasks = NoneV
           THEN /\ ret' = Response(400, D(<< <<"error", S("Unknown task type")>> >>))
                /\ UNCHANGED logs
           ELSE /\ LogHasRoom
                /\ logs' = Log("task_type = " \o task_type)
                /\ ret' = Response(200, D(<< <<"subtasks", subtasks>> >>))
        /\ UNCHANGED <<rules, current_session, pending, hfVars>>

\* a variant that writes the log line before it looks at the datasets
SelectSubtask_LogFirst(task_type, subtask) ==
    LET datasets == get_datasets(rules, task_type, subtask, "all")
    IN  /\ call' = [op |-> "select_subtask", task_type |-> task_type,
                    subtask |-> subtask]
        /\ LogHasRoom
        /\ logs' = Log("subtask = " \o task_type \o "/" \o subtask)
        /\ IF datasets = NoneV
           THEN ret' = Response(400, D(<< <<"error", S("Unknown subtask")>> >>))
           ELSE ret' = Response(200, D(<< <<"datasets", datasets>> >>))
        /\ UNCHANGED <<rules, current_session, pending, hfVars>>

SelectSubtask(task_type, subtask) ==
    LET datasets == get_datasets(rules, task_type, subtask, "all")
    IN  /\ call' = [op |-> "select_subtask", task_type |-> task_type,
                    subtask |-> subtask]
        /\ IF datasets = NoneV
           THEN /\ ret' = Response(400, D(<< <<"error", S("Unknown subtask")>> >>))
                /\ UNCHANGED logs
           ELSE /\ LogHasRoom
                /\ logs' = Log("subtask = " \o task_type \o "/" \o subtask)
                /\ ret' = Response(200, D(<< <<"datasets", datasets>> >>))
        /\ UNCHANGED <<rules, current_session, pending, hfVars>>

SubmitCustomTask(task_text) ==
    /\ LogHasRoom
    /\ logs' = Log("user_task = " \o task_text)
    /\ call' = [op |-> "submit_custom_task", task |-> task_text]
    /\ ret' = Response(200, D(<< <<"message", S("Zaglushka: LLM-filtratsiya nakhoditsya v razrabotke.")>> >>))
    /\ UNCHANGED <<rules, current_session, pending, hfVars>>

NextApp ==
    \/ \E id \in SessionIds : CreateSession(id)
    \/ \E id \in SessionIds : LogNewSession(id)
    \/ \E t \in AppTaskTypes : SelectTaskType(t)
    \/ \E t \in AppTaskTypes, st \in AppSubtasks : SelectSubtask(t, st)
    \/ \E x \in AppTasks : SubmitCustomTask(x)

SpecApp == Init /\ [][NextApp]_vars

(***************************************************************************)
(* C17: for every start_session request that returns session id X, the     *)
(* line "NEW SESSION X" is appended to the log file of session X itself,   *)
(* not to another session's log, also when several start_session requests *)
(* are handled concurrently and their create_session and log steps         *)
(* interleave.                                                             *)
(***************************************************************************)
C17_NewSessionLineInOwnLog ==
    (call.op = "start_session" /\ ret.t = "response") =>
        /\ \E i \in 1..Len(logs[SessionPath(call.session_id)]) :
              logs[SessionPath(call.session_id)][i] =
                 "NEW SESSION " \o call.session_id
        /\ \A p \in DOMAIN logs \ {SessionPath(call.session_id)} :
              \A i \in 1..Len(logs[p]) :
                 logs[p][i] # "NEW SESSION " \o call.session_id

(***************************************************************************)
(* C18: a rejected request leaves every session log unchanged:             *)
(* select_task_type with a task_type that is not a category answers 400    *)
(* {"error": "Unknown task type"}, select_subtask with an unknown category *)
(* or unknown subtask answers 400 {"error": "Unknown subtask"}, and in     *)
(* both cases no line is appended to any log; a log line is written only   *)
(* for requests that succeed.                                              *)
(***************************************************************************)
C18_RejectedRequestsLogNothing ==
    [][/\ (call'.op = "select_task_type" /\ ~CategoryPresent(call'.task_type))
            => /\ ret' = Response(400, D(<< <<"error", S("Unknown task type")>> >>))
               /\ logs' = logs
       /\ (call'.op = "select_subtask"
           /\ ~SubtaskPresent(call'.task_type, call'.subtask))
            => /\ ret' = Response(400, D(<< <<"error", S("Unknown subtask")>> >>))
               /\ logs' = logs
       /\ (ret'.t = "response" /\ ret'.status # 200) => logs' = logs
      ]_vars

\* a subtask is rejected while a session is current and has a log line
C18_Witness ==
    /\ call.op = "select_subtask"
    /\ call.task_type = "Tabular"
    /\ call.subtask = "x"
    /\ ret.t = "response"
    /\ ret.status = 400
    /\ Truthy(current_session)
    /\ Len(logs[current_session.v]) > 0

(***************************************************************************)
(* decision_engine/llm_optimizer.py.  What the OpenAI call gives is the    *)
(* model's input: the call raises, or it returns a text.  A text is a      *)
(* sequence of whitespace-separated tokens; a token is a string or a JSON  *)
(* document, kept as the value json.loads makes of it.  Message strings    *)
(* are Cyrillic in the source and written here in Latin letters, and the   *)
(* backquote, which a string here cannot hold, is written as a tilde: ~~~  *)
(* stands for the three backquotes of a markdown fence.                    *)
(***************************************************************************)
Raise(name) == [t |-> "raise", v |-> name]

Text(tokens) == [t |-> "text", v |-> tokens]

Json(value) == [t |-> "json", v |-> value]

Whitespace == {" ", "\n", "\t"}

RECURSIVE LStrip(_)
LStrip(str) ==
    IF Len(str) > 0 /\ SubSeq(str, 1, 1) \in Whitespace
    THEN LStrip(SubSeq(str, 2, Len(str)))
    ELSE str

RECURSIVE ReSubFence(_, _)
\* re.sub(fence + r'\s*', '', str)
ReSubFence(fence, str) ==
    IF Len(str) < Len(fence) THEN str
    ELSE IF SubSeq(str, 1, Len(fence)) = fence
    THEN ReSubFence(fence, LStrip(SubSeq(str, Len(fence) + 1, Len(str))))
    ELSE SubSeq(str, 1, 1) \o ReSubFence(fence, SubSeq(str, 2, Len(str)))

\* the two substitutions of parse_task on a piece of the response text
CleanString(str) == ReSubFence("~~~", ReSubFence("~~~json", str))

RECURSIVE CleanValue(_)
\* the substitutions run over the whole text, so also over every string
\* inside the JSON document
CleanValue(val) ==
    CASE val.t = "str" -> S(CleanString(val.v))
      [] val.t = "list" -> L([i \in 1..Len(val.v) |-> CleanValue(val.v[i])])
      [] val.t = "dict" ->
           D([i \in 1..Len(val.v) |->
                <<CleanString(val.v[i][1]), CleanValue(val.v[i][2])>>])
      [] OTHER -> val

\* response_text after the two re.sub calls and strip()
CleanText(tokens) ==
    SelectSeq([i \in 1..Len(tokens) |->
                 IF tokens[i].t = "json" THEN Json(CleanValue(tokens[i].v))
                 ELSE S(CleanString(tokens[i].v))],
              LAMBDA tok : tok.t = "json" \/ Len(tok.v) > 0)

\* field in parsed
In(field, parsed) ==
    CASE parsed.t = "dict" -> DictHas(parsed, field)
      [] parsed.t = "list" -> \E i \in 1..Len(parsed.v) : parsed.v[i] = S(field)
      [] parsed.t = "str" -> Contains(field, parsed.v)

\* the try block of parse_task: the value returned or the exception raised
ParseTaskBody(outcome) ==
    IF outcome.t = "raise" THEN Raise("Exception")
    ELSE LET response_text == CleanText(outcome.v)
         IN  IF Len(response_text) # 1 \/ response_text[1].t # "json"
             THEN Raise("JSONDecodeError")
             ELSE LET parsed == response_text[1].v
                  IN  IF parsed.t \notin {"dict", "list", "str"}
                      THEN Raise("TypeError")
                      ELSE IF ~In("task_type", parsed)
                      THEN D(<< <<"error", S("LLM ne vernul obyazatelnoe pole: task_type")>>,
                                <<"raw_response", Text(response_text)>> >>)
                      ELSE IF ~In("recommended_model", parsed)
                      THEN D(<< <<"error", S("LLM ne vernul obyazatelnoe pole: recommended_model")>>,
                                <<"raw_response", Text(response_text)>> >>)
                      ELSE IF ~IsDict(parsed) THEN Raise("TypeError")
                      ELSE IF DictItem(parsed, "task_type")
                                \notin {S("classification"), S("regression")}
                      THEN ReplaceAt(parsed, <<"task_type">>, S("classification"))
                      ELSE parsed

\* a variant without the last handler, "except Exception"
parse_task_NoCatchAll(outcome) ==
    LET body == ParseTaskBody(outcome)
    IN  IF body.t # "raise" THEN body
        ELSE IF body.v = "JSONDecodeError"
        THEN D(<< <<"error", S("LLM vernul nevalidnyi JSON")>>,
                  <<"raw_response", Text(CleanText(outcome.v))>>,
                  <<"hint", S("Poprobuite pereformulirovat zapros bolee chetko")>> >>)
        ELSE body

\* parse_task with its two exception handlers
parse_task(outcome) ==
    LET body == ParseTaskBody(outcome)
    IN  IF body.t # "raise" THEN body
        ELSE IF body.v = "JSONDecodeError"
        THEN D(<< <<"error", S("LLM vernul nevalidnyi JSON")>>,
                  <<"raw_response", Text(CleanText(outcome.v))>>,
                  <<"hint", S("Poprobuite pereformulirovat zapros bolee chetko")>> >>)
        ELSE D(<< <<"error", S("Oshibka pri obrashchenii k API")>>,
                  <<"details", S(body.v)>> >>)

(***************************************************************************)
(* What the LLM may answer                                                 *)
(***************************************************************************)
Absent == [t |-> "absent"]

TaskTypeValues == {Absent, S("classification"), S("regression"),
                   S("clustering"), S("Classification"), S(""), NoneV,
                   L(<<S("classification")>>)}

ModelValues == {Absent, S("Ridge")}

ReasoningValues == {Absent, S("fast and simple"),
                    S("fit it with ~~~model.fit(X, y)~~~")}

\* a JSON object with the fields that are not Absent
ObjectOf(tt, rm, rs) ==
    D(SelectSeq(<< <<"task_type", tt>>, <<"recommended_model", rm>>,
                   <<"reasoning", rs>> >>,
                LAMBDA pair : pair[2] # Absent))

JsonDocuments ==
    {ObjectOf(tt, rm, rs) :
        tt \in TaskTypeValues, rm \in ModelValues, rs \in ReasoningValues}
    \cup {NoneV, [t |-> "int", v |-> 42], [t |-> "bool", v |-> TRUE],
          S("hello"), S("task_type and recommended_model"),
          L(<<>>), L(<<S("task_type"), S("recommended_model")>>)}

LLMOutcomes ==
    {Raise("Exception")}
    \cup {Text(<<Json(doc)>>) : doc \in JsonDocuments}
    \cup {Text(<<S("~~~json"), Json(doc), S("~~~")>>) : doc \in JsonDocuments}
    \cup {Text(<<S("~~~"), Json(doc), S("~~~")>>) : doc \in JsonDocuments}
    \cup {Text(<<>>), Text(<<S("Sorry,"), S("no")>>),
          Text(<<Json(ObjectOf(S("regression"), S("Ridge"), Absent)), S("Done.")>>)}

ParseTask(outcome) ==
    /\ call' = [op |-> "parse_task", outcome |-> outcome]
    /\ ret' = parse_task(outcome)
    /\ UNCHANGED <<rules, appVars, hfVars>>

NextLLM == \E o \in LLMOutcomes : ParseTask(o)

SpecLLM == Init /\ [][NextLLM]_vars

(***************************************************************************)
(* Vocabulary of the properties about parse_task                           *)
(***************************************************************************)
IsFence(tok) == tok \in {S("~~~json"), S("~~~")}

\* the response is one JSON document, bare or between markdown fences
IsJsonResponse(outcome) ==
    /\ outcome.t = "text"
    /\ Cardinality({i \in 1..Len(outcome.v) : outcome.v[i].t = "json"}) = 1
    /\ \A i \in 1..Len(outcome.v) :
          outcome.v[i].t = "json" \/ IsFence(outcome.v[i])

\* the JSON document of such a response, as the LLM wrote it
LLMJson(outcome) ==
    outcome.v[CHOOSE i \in 1..Len(outcome.v) : outcome.v[i].t = "json"].v

HoldsRequiredFields(outcome) ==
    /\ IsJsonResponse(outcome)
    /\ IsDict(LLMJson(outcome))
    /\ DictHas(LLMJson(outcome), "task_type")
    /\ DictHas(LLMJson(outcome), "recommended_model")

(***************************************************************************)
(* C19: parse_task never raises: for every outcome of the LLM call (a      *)
(* transport error, a response that is not valid JSON, valid JSON of any   *)
(* shape that lacks "task_type" or "recommended_model") it returns a       *)
(* dictionary with an "error" key, and only a JSON object holding both     *)
(* required fields is returned as a parsed result.                         *)
(***************************************************************************)
C19_ParseTaskNeverRaises ==
    call.op = "parse_task" =>
        /\ IsDict(ret)
        /\ IF HoldsRequiredFields(call.outcome)
           THEN /\ ~DictHas(ret, "error")
                /\ DictKeys(ret) = DictKeys(LLMJson(call.outcome))
           ELSE DictHas(ret, "error")

\* valid JSON that is not an object and on which the field test itself fails
C19_Witness ==
    /\ call.op = "parse_task"
    /\ call.outcome = Text(<<S("~~~json"), Json([t |-> "int", v |-> 42]), S("~~~")>>)
    /\ IsDict(ret)
    /\ DictHas(ret, "error")

MaxCandidates == 2

RECURSIVE RStrip(_)
RStrip(str) ==
    IF Len(str) > 0 /\ SubSeq(str, Len(str), Len(str)) \in Whitespace
    THEN RStrip(SubSeq(str, 1, Len(str) - 1))
    ELSE str

\* str.strip()
Strip(str) == RStrip(LStrip(str))

RECURSIVE TakeWord(_)
\* the longest prefix of str without whitespace
TakeWord(str) ==
    IF Len(str) = 0 \/ SubSeq(str, 1, 1) \in Whitespace THEN ""
    ELSE SubSeq(str, 1, 1) \o TakeWord(SubSeq(str, 2, Len(str)))

RECURSIVE Split(_)
\* str.split()
Split(str) ==
    LET s == LStrip(str)
    IN  IF Len(s) = 0 THEN <<>>
        ELSE LET w == TakeWord(s)
             IN  <<w>> \o Split(SubSeq(s, Len(w) + 1, Len(s)))

\* _call_llm: the stripped content, or Exception for whatever went wrong
_call_llm(completion) ==
    IF completion.t = "raise" THEN Raise("Exception")
    ELSE IF completion.t # "str" THEN Raise("Exception")
    ELSE S(Strip(completion.v))

\* ', '.join(models), of which only success or failure matters here
JoinRaises(models) == ~IsList(models)

\* seq[0]
First(list) ==
    IF ~IsList(list) THEN Raise("TypeError")
    ELSE IF Len(list.v) = 0 THEN Raise("IndexError")
    ELSE S(list.v[1])

\* the try block shared by the two operations
SelectBody(candidates, completion) ==
    LET selected == _call_llm(completion)
    IN  IF selected.t = "raise" THEN selected
        ELSE LET words == Split(Strip(selected.v))
             IN  IF words = <<>> THEN Raise("IndexError")
                 ELSE IF \E i \in 1..Len(candidates.v) : candidates.v[i] = words[1]
                 THEN S(words[1])
                 ELSE First(candidates)

\* a variant without the handler "except Exception"
select_best_model_NoHandler(models, data_info, completion) ==
    IF JoinRaises(models) THEN Raise("TypeError")
    ELSE SelectBody(models, completion)

select_best_model(models, data_info, completion) ==
    IF JoinRaises(models) THEN Raise("TypeError")
    ELSE LET body == SelectBody(models, completion)
         IN  IF body.t = "raise" THEN First(models) ELSE body

generate_dataset_recommendation(available_datasets, completion) ==
    IF JoinRaises(available_datasets) THEN Raise("TypeError")
    ELSE LET body == SelectBody(available_datasets, completion)
         IN  IF body.t = "raise" THEN First(available_datasets) ELSE body

CandidateModels == {"Ridge", "LinearRegression", "RandomForestRegressor"}

CandidateDatasets == {"load_iris", "load_wine"}

ModelCandidateLists ==
    {L(seq) : seq \in SeqsUpTo(CandidateModels, MaxCandidates)} \cup {NoneV}

DatasetCandidateLists ==
    {L(seq) : seq \in SeqsUpTo(CandidateDatasets, MaxCandidates)} \cup {NoneV}

DataInfos == {NoneV, D(<< <<"rows", [t |-> "int", v |-> 150]>> >>)}

Completions ==
    {Raise("APIConnectionError"), NoneV}
    \cup {S(str) : str \in {"", " \n", "Ridge", "  LinearRegression\n",
                            "LinearRegression is the best choice here",
                            "I suggest Ridge", "ridge", "Ridge.", "XGBoost",
                            "load_wine", "load_wine\t(178 samples)",
                            "wine"}}

SelectBestModel(models, data_info, completion) ==
    /\ call' = [op |-> "select_best_model", candidates |-> models,
                data_info |-> data_info, completion |-> completion]
    /\ ret' = select_best_model(models, data_info, completion)
    /\ UNCHANGED <<rules, appVars, hfVars>>

GenerateDatasetRecommendation(available_datasets, completion) ==
    /\ call' = [op |-> "generate_dataset_recommendation",
                candidates |-> available_datasets, completion |-> completion]
    /\ ret' = generate_dataset_recommendation(available_datasets, completion)
    /\ UNCHANGED <<rules, appVars, hfVars>>

NextSelect ==
    \/ \E m \in ModelCandidateLists, i \in DataInfos, c \in Completions :
          SelectBestModel(m, i, c)
    \/ \E a \in DatasetCandidateLists, c \in Completions :
          GenerateDatasetRecommendation(a, c)

SpecSelect == Init /\ [][NextSelect]_vars

(***************************************************************************)
(* Vocabulary of the properties about the two selections                   *)
(***************************************************************************)
SelectOps == {"select_best_model", "generate_dataset_recommendation"}

IsBlank(str, i) == SubSeq(str, i, i) \in Whitespace

\* the positions of the first whitespace-delimited token of str
TokenStart(str) ==
    CHOOSE i \in 1..Len(str) :
        ~IsBlank(str, i) /\ \A j \in 1..(i - 1) : IsBlank(str, j)

TokenEnd(str) ==
    CHOOSE k \in TokenStart(str)..Len(str) :
        /\ \A j \in TokenStart(str)..k : ~IsBlank(str, j)
        /\ k = Len(str) \/ IsBlank(str, k + 1)

HasToken(completion) ==
    /\ completion.t = "str"
    /\ \E i \in 1..Len(completion.v) : ~IsBlank(completion.v, i)

FirstToken(completion) ==
    SubSeq(completion.v, TokenStart(completion.v), TokenEnd(completion.v))

IsCandidate(x, candidates) ==
    \E i \in 1..Len(candidates.v) : candidates.v[i] = x

NonEmptyCandidates(candidates) == IsList(candidates) /\ Len(candidates.v) > 0

(***************************************************************************)
(* C21: for every non-empty candidate list and every LLM outcome (a known  *)
(* name, an unknown name, an empty response, a failed call),               *)
(* select_best_model and generate_dataset_recommendation return an element *)
(* of the list: the first whitespace-delimited token of the response if it *)
(* is a candidate, otherwise the first candidate; neither raises.          *)
(***************************************************************************)
C21_SelectionIsACandidate ==
    (call.op \in SelectOps /\ NonEmptyCandidates(call.candidates)) =>
        /\ ret.t = "str"
        /\ IsCandidate(ret.v, call.candidates)
        /\ ret.v =
             (IF HasToken(call.completion)
                   /\ IsCandidate(FirstToken(call.completion), call.candidates)
              THEN FirstToken(call.completion)
              ELSE call.candidates.v[1])

\* an empty response, where split()[0] has nothing to take
C21_Witness ==
    /\ call.op = "select_best_model"
    /\ call.candidates = L(<<"Ridge", "LinearRegression">>)
    /\ call.completion = S(" \n")
    /\ ret = S("Ridge")

(***************************************************************************)
(* HuggingFaceIntegration.get_dataset_info (integrations/hugginface.py).   *)
(* The variable cache is self.cache.  What HfApi.dataset_info answers is   *)
(* an input of the call: an exception, or an info object, written as the   *)
(* dict of the attributes it has.                                          *)
(***************************************************************************)
PyInt(n) == [t |-> "int", v |-> n]

NotCalled == [t |-> "not called"]

\* str(x) for the values met here
Str(x) ==
    CASE x.t = "str" -> x.v
      [] x.t = "None" -> "None"
      [] x.t = "dict" /\ Len(x.v) = 0 -> "{}"
      [] x.t = "list" /\ Len(x.v) = 0 -> "[]"

\* the dict built from the info object, or the exception of building it
DatasetResult(dataset_id, info) ==
    LET splits == DictGet(info, "splits", D(<<>>))
    IN  IF ~IsDict(splits)
        THEN Raise("'NoneType' object has no attribute 'keys'")
        ELSE D(<< <<"id", S(dataset_id)>>,
                  <<"description", DictGet(info, "description", S("Net opisaniya"))>>,
                  <<"citation", DictGet(info, "citation", S(""))>>,
                  <<"homepage", DictGet(info, "homepage", S(""))>>,
                  <<"license", DictGet(info, "license", S("unknown"))>>,
                  <<"features", S(Str(DictGet(info, "features", D(<<>>))))>>,
                  <<"splits", L(DictKeys(splits))>>,
                  <<"download_size", DictGet(info, "download_size", PyInt(0))>>,
                  <<"dataset_size", DictGet(info, "dataset_size", PyInt(0))>> >>)

\* the except branch: {"id": dataset_id, "error": str(e)}
ErrorResult(dataset_id, e) ==
    D(<< <<"id", S(dataset_id)>>, <<"error", S(e.v)>> >>)

\* a variant that also stores the result of a failed lookup
get_dataset_info_StoreFailures(self_cache, dataset_id, outcome) ==
    IF DictHas(self_cache, dataset_id)
    THEN [ret |-> DictItem(self_cache, dataset_id), cache |-> self_cache,
          api |-> NotCalled]
    ELSE LET result == IF outcome.t = "raise" THEN outcome
                       ELSE DatasetResult(dataset_id, outcome)
             stored == IF result.t = "raise"
                       THEN ErrorResult(dataset_id, result) ELSE result
         IN  [ret |-> stored,
              cache |-> D(Append(self_cache.v, <<dataset_id, stored>>)),
              api |-> outcome]

\* the value returned, self.cache afterwards, and what the API was asked
get_dataset_info(self_cache, dataset_id, outcome) ==
    IF DictHas(self_cache, dataset_id)
    THEN [ret |-> DictItem(self_cache, dataset_id), cache |-> self_cache,
          api |-> NotCalled]
    ELSE LET result == IF outcome.t = "raise" THEN outcome
                       ELSE DatasetResult(dataset_id, outcome)
         IN  IF result.t = "raise"
             THEN [ret |-> ErrorResult(dataset_id, result),
                   cache |-> self_cache, api |-> outcome]
             ELSE [ret |-> result,
                   cache |-> D(Append(self_cache.v, <<dataset_id, result>>)),
                   api |-> outcome]

HFDatasetIds == {"imdb", "squad", "no/such-dataset"}

DatasetInfos ==
    {D(<<>>),
     D(<< <<"description", S("Large Movie Review Dataset")>>,
          <<"splits", D(<< <<"train", PyInt(25000)>>, <<"test", PyInt(25000)>> >>)>>,
          <<"download_size", PyInt(84125825)>> >>),
     D(<< <<"description", NoneV>>, <<"features", NoneV>> >>),
     D(<< <<"description", S("Large Movie Review Dataset")>>,
          <<"splits", NoneV>> >>)}

ApiOutcomes ==
    DatasetInfos \cup {Raise("404 Client Error: Repository Not Found"),
                       Raise("Connection timed out")}

GetDatasetInfo(dataset_id, outcome) ==
    LET done == get_dataset_info(cache, dataset_id, outcome)
    IN  /\ call' = [op |-> "get_dataset_info", dataset_id |-> dataset_id,
                    api |-> done.api]
        /\ ret' = done.ret
        /\ cache' = done.cache
        /\ UNCHANGED <<rules, appVars>>

NextHF == \E id \in HFDatasetIds, o \in ApiOutcomes : GetDatasetInfo(id, o)

SpecHF == Init /\ [][NextHF]_vars

(***************************************************************************)
(* Vocabulary of the properties about the cache                            *)
(***************************************************************************)
Cached(c, id) == \E i \in 1..Len(c.v) : c.v[i][1] = id

Entry(c, id) == c.v[CHOOSE i \in 1..Len(c.v) : c.v[i][1] = id][2]

CachedIds(c) == {c.v[i][1] : i \in 1..Len(c.v)}

IsErrorResult(r, id) ==
    /\ IsDict(r)
    /\ DictKeys(r) = <<"id", "error">>
    /\ DictItem(r, "id") = S(id)

(***************************************************************************)
(* C22: get_dataset_info caches only successful lookups.  A call for an id *)
(* that is cached returns the cached result without calling the API and    *)
(* leaves the cache as it is; a call for an id that is not cached calls    *)
(* the API: if the lookup fails it stores nothing and returns {id, error}, *)
(* so that the next call for that id asks the API again, and if it         *)
(* succeeds it stores what it returns.  No call changes or removes an      *)
(* entry of the cache.                                                     *)
(***************************************************************************)
C22_CacheOnlySuccesses ==
    [][call'.op = "get_dataset_info" =>
        LET id == call'.dataset_id
        IN  /\ \A k \in CachedIds(cache) :
                  Cached(cache', k) /\ Entry(cache', k) = Entry(cache, k)
            /\ IF Cached(cache, id)
               THEN /\ call'.api = NotCalled
                    /\ ret' = Entry(cache, id)
                    /\ cache' = cache
               ELSE /\ call'.api # NotCalled
                    /\ call'.api.t = "raise" => DictHas(ret', "error")
                    /\ IF DictHas(ret', "error")
                       THEN /\ IsErrorResult(ret', id)
                            /\ cache' = cache
                       ELSE /\ CachedIds(cache') = CachedIds(cache) \cup {id}
                            /\ Entry(cache', id) = ret'
                            /\ DictItem(ret', "id") = S(id)]_vars

\* a later call for a cached id, answered from the cache without the API,
\* while another id is not cached
C22_Witness ==
    /\ call.op = "get_dataset_info"
    /\ call.dataset_id = "imdb"
    /\ call.api = NotCalled
    /\ Cached(cache, "imdb")
    /\ ret = Entry(cache, "imdb")
    /\ ~Cached(cache, "no/such-dataset")

====
